---- MODULE Spec2Model ----
(***************************************************************************)
(* Model of the immediate-mode TUI engine of src/src/main.rs: the ImTui    *)
(* interaction state (hot / active / key / ids / focus), the layout stack  *)
(* and the widget functions label, checkbox, button and edit_field.        *)
(*                                                                         *)
(* Option<T> values are modelled as sequences: None is <<>> and Some(x) is *)
(* <<x>>.  A Point is the pair <<x, y>>.  A String is the sequence of its  *)
(* character codes.                                                        *)
(***************************************************************************)
EXTENDS Integers, Sequences, FiniteSets, TLC

VARIABLES
    imtui,          \* the ImTui value
    pc,             \* "idle" between frames, "frame" inside begin..end, "panicked", "done"
    buffer,         \* the String handed to edit_field
    state,          \* the bool handed to checkbox
    ret,            \* what the last widget call returned
    acquired,       \* widget calls of the current frame that set active
    session,        \* the active edit field was declared in every frame since it became active
    released,       \* an edit_field call of the current frame ended such a session
    decl,           \* scripted driver: the ids declared in every frame
    script,         \* scripted driver: the keys fed so far, one per frame
    hist,           \* scripted driver: what each frame showed
    quit, hide_buttons, hide_db_state, first_name, last_name, database,  \* locals of main
    count,          \* layout driver: label / begin_layout / end_layout calls of the current frame
    feeds,          \* layout driver: the feed_key calls since the last begin()
    balanced,       \* layout driver: every frame so far closed exactly the layouts it opened
    kids            \* the sizes handed to add_size of the layout under test

ghostVars == <<ret, acquired, session, released>>
scriptVars == <<decl, script, hist>>
mainVars == <<quit, hide_buttons, hide_db_state, first_name, last_name, database>>
layoutVars == <<count, feeds, balanced, kids>>
vars == <<imtui, pc, buffer, state, ghostVars, scriptVars, mainVars, layoutVars>>

(***************************************************************************)
(* Bounds of the model.                                                    *)
(***************************************************************************)
NumIds == 3
MaxBuf == 1
MaxLabels == 1
LabelLen == 3
MaxScript == 3
MaxNav == 2
MaxTyped == 1
MaxDb == 1
MaxOpen == 2
MaxFeeds == 1
MaxKids == 3

(***************************************************************************)
(* Program constants.                                                      *)
(***************************************************************************)
KEY_ENTER == 10
KEY_ESCAPE == 27
CHAR_S == 115
CHAR_W == 119
CHAR_Q == 113
PRINTABLE_LO == 32
PRINTABLE_HI == 127
INACTIVE_PAIR == 1
HOT_PAIR == 2
ACTIVE_PAIR == 3
EDIT_FIELD_WIDTH == 20

None == <<>>
Some(x) == <<x>>

Max(a, b) == IF a >= b THEN a ELSE b

(***************************************************************************)
(* Geometry: Point with component-wise Add and Mul.                        *)
(***************************************************************************)
Point(x, y) == <<x, y>>
add(p, q) == Point(p[1] + q[1], p[2] + q[2])
mul(p, q) == Point(p[1] * q[1], p[2] * q[2])

(***************************************************************************)
(* Layout: one entry of the layout stack.                                  *)
(***************************************************************************)
Layout_new(typ, pos, pad) == [typ |-> typ, pos |-> pos, size |-> Point(0, 0), pad |-> pad]

free_pos(l) ==
    IF l.typ = "Horz" THEN add(l.pos, mul(l.size, Point(1, 0)))
    ELSE add(l.pos, mul(l.size, Point(0, 1)))

\* mutant: the padding is left out
add_size_nopad(l, size) ==
    IF l.typ = "Horz"
    THEN [l EXCEPT !.size = Point(l.size[1] + size[1], Max(l.size[2], size[2]))]
    ELSE [l EXCEPT !.size = Point(Max(l.size[1], size[1]), l.size[2] + size[2])]

add_size(l, size) ==
    IF l.typ = "Horz"
    THEN [l EXCEPT !.size = Point(l.size[1] + size[1] + l.pad, Max(l.size[2], size[2]))]
    ELSE [l EXCEPT !.size = Point(Max(l.size[1], size[1]), l.size[2] + size[2] + l.pad)]

(***************************************************************************)
(* Integer conversions of the source.                                      *)
(***************************************************************************)
\* `key as u8`: the low eight bits of an i32
as_u8(key) == key % 256

\* i32::rem_euclid(n) for n > 0 (n = 0 panics, see begin_panics)
rem_euclid(x, n) == x % n

\* i32::clamp(lo, hi)
clamp(x, lo, hi) == IF x < lo THEN lo ELSE IF x > hi THEN hi ELSE x

(***************************************************************************)
(* ImTui                                                                   *)
(***************************************************************************)
ImTui_default ==
    [active |-> None, hot |-> None, layouts |-> <<>>, key |-> None,
     ids |-> <<>>, focus |-> 0]

last(s) == s[Len(s)]
pop(s) == SubSeq(s, 1, Len(s) - 1)
set_last(s, x) == [s EXCEPT ![Len(s)] = x]

\* mutant: navigation is not held back by an active widget
begin_focus_always(im) ==
    IF im.key # None /\ Len(im.ids) > 0
    THEN IF as_u8(im.key[1]) = CHAR_S
         THEN rem_euclid(im.focus + 1, Len(im.ids))
         ELSE IF as_u8(im.key[1]) = CHAR_W
              THEN rem_euclid(im.focus - 1, Len(im.ids))
              ELSE im.focus
    ELSE im.focus

\* the focus value begin() stores: the navigation step of lines 82-90
begin_focus(im) ==
    IF im.active = None /\ im.key # None
    THEN IF as_u8(im.key[1]) = CHAR_S
         THEN rem_euclid(im.focus + 1, Len(im.ids))
         ELSE IF as_u8(im.key[1]) = CHAR_W
              THEN rem_euclid(im.focus - 1, Len(im.ids))
              ELSE im.focus
    ELSE im.focus

\* rem_euclid by zero: the navigation step divides by ids.len()
begin_panics(im) ==
    /\ im.active = None
    /\ im.key # None
    /\ as_u8(im.key[1]) \in {CHAR_S, CHAR_W}
    /\ Len(im.ids) = 0

\* mutant: an index past the end falls back to the first id
begin_hot_reset(ids, focus) ==
    IF Len(ids) > 0
    THEN Some(ids[(IF focus < 0 \/ focus > Len(ids) - 1 THEN 0 ELSE focus) + 1])
    ELSE None

\* the hot value begin() computes from the stored focus, lines 92-96
begin_hot(ids, focus) ==
    IF Len(ids) > 0
    THEN Some(ids[clamp(focus, 0, Len(ids) - 1) + 1])
    ELSE None

\* mutant: the ids of the previous frame are kept
begin_keep_ids(im, pos) ==
    [im EXCEPT !.focus = begin_focus(im),
               !.hot = begin_hot(im.ids, begin_focus(im)),
               !.layouts = Append(im.layouts, Layout_new("Vert", pos, 0))]

begin(im, pos) ==
    [im EXCEPT !.focus = begin_focus(im),
               !.hot = begin_hot(im.ids, begin_focus(im)),
               !.layouts = Append(im.layouts, Layout_new("Vert", pos, 0)),
               !.ids = <<>>]

begin_layout_panics(im) == im.layouts = <<>>

begin_layout(im, typ, pad) ==
    [im EXCEPT !.layouts = Append(im.layouts, Layout_new(typ, free_pos(last(im.layouts)), pad))]

end_layout_panics(im) == Len(im.layouts) < 2

\* mutant: the closed layout is folded into itself and stays on the stack
end_layout_keep(im) ==
    [im EXCEPT !.layouts = set_last(im.layouts,
                                    add_size(last(im.layouts), last(im.layouts).size))]

end_layout(im) ==
    [im EXCEPT !.layouts = set_last(pop(im.layouts),
                                    add_size(last(pop(im.layouts)), last(im.layouts).size))]

end_panics(im) == im.layouts = <<>>

\* mutant: end() leaves the pending key in place
end_keeps_key(im) == [im EXCEPT !.layouts = pop(im.layouts)]

end(im) == [im EXCEPT !.layouts = pop(im.layouts), !.key = None]

feed_key(im, key) == [im EXCEPT !.key = Some(key)]

(***************************************************************************)
(* Widgets.  Each returns the new ImTui together with what the call hands  *)
(* back to its caller; all of them panic when no layout is open.           *)
(***************************************************************************)
widget_panics(im) == im.layouts = <<>>

\* mutant: a label takes the pending key
label_takes_key(im, textLen) ==
    [im EXCEPT !.layouts = set_last(im.layouts, add_size(last(im.layouts), Point(textLen, 1))),
               !.key = None]

label(im, textLen) ==
    [im EXCEPT !.layouts = set_last(im.layouts, add_size(last(im.layouts), Point(textLen, 1)))]

\* mutant: active is granted without checking that nothing is active
button_active_noexcl(im, id) ==
    IF im.active = Some(id) THEN None
    ELSE IF im.hot = Some(id) /\ im.key = Some(KEY_ENTER) THEN Some(id)
    ELSE im.active

\* mutant: the active widget never clears active
button_active_sticky(im, id) ==
    IF im.hot = Some(id) /\ im.active = None /\ im.key = Some(KEY_ENTER) THEN Some(id)
    ELSE im.active

\* the interaction step shared verbatim by checkbox (135-146) and button (172-183)
button_active(im, id) ==
    IF im.active = Some(id) THEN None
    ELSE IF im.hot = Some(id) /\ im.active = None /\ im.key = Some(KEY_ENTER) THEN Some(id)
    ELSE im.active

\* mutant: the click is reported in the frame of the Enter press
button_clicked_onpress(im, id) ==
    im.hot = Some(id) /\ im.active = None /\ im.key = Some(KEY_ENTER)

\* mutant: the click is reported on the press as well as on the next call
button_clicked_both(im, id) ==
    \/ im.active = Some(id)
    \/ im.hot = Some(id) /\ im.active = None /\ im.key = Some(KEY_ENTER)

button_clicked(im, id) == im.active = Some(id)

button_pair(im, id) ==
    IF im.active = Some(id) THEN INACTIVE_PAIR
    ELSE IF im.hot = Some(id)
         THEN IF im.active = None /\ im.key = Some(KEY_ENTER) THEN ACTIVE_PAIR ELSE HOT_PAIR
         ELSE INACTIVE_PAIR

button(im, labelLen, id) ==
    [imtui |-> [im EXCEPT !.active = button_active(im, id),
                          !.ids = Append(im.ids, id),
                          !.layouts = set_last(im.layouts,
                                add_size(last(im.layouts), Point(labelLen + 4, 1)))],
     clicked |-> button_clicked(im, id),
     pair |-> button_pair(im, id)]

checkbox(im, textLen, st, id) ==
    [imtui |-> [im EXCEPT !.active = button_active(im, id),
                          !.ids = Append(im.ids, id),
                          !.layouts = set_last(im.layouts,
                                add_size(last(im.layouts), Point(textLen + 4, 1)))],
     state |-> IF button_clicked(im, id) THEN ~st ELSE st,
     clicked |-> button_clicked(im, id),
     pair |-> button_pair(im, id)]

edit_active(im, id) ==
    IF im.active = Some(id)
    THEN IF im.key # None /\ im.key[1] \in {KEY_ESCAPE, KEY_ENTER} THEN None ELSE im.active
    ELSE IF im.hot = Some(id) /\ im.active = None /\ im.key = Some(KEY_ENTER) THEN Some(id)
    ELSE im.active

edit_buffer(im, buf, id) ==
    IF /\ im.active = Some(id)
       /\ im.key # None
       /\ im.key[1] \notin {KEY_ESCAPE, KEY_ENTER}
       /\ im.key[1] \in PRINTABLE_LO..PRINTABLE_HI
    THEN Append(buf, as_u8(im.key[1]))
    ELSE buf

edit_pair(im, id) ==
    IF im.active = Some(id) THEN INACTIVE_PAIR
    ELSE IF im.hot = Some(id)
         THEN IF im.active = None /\ im.key = Some(KEY_ENTER) THEN INACTIVE_PAIR ELSE HOT_PAIR
         ELSE INACTIVE_PAIR

edit_field(im, buf, id) ==
    [imtui |-> [im EXCEPT !.active = edit_active(im, id),
                          !.ids = Append(im.ids, id),
                          !.layouts = set_last(im.layouts,
                                add_size(last(im.layouts), Point(EDIT_FIELD_WIDTH, 1)))],
     buffer |-> edit_buffer(im, buf, id),
     clicked |-> FALSE,
     pair |-> edit_pair(im, id)]

(***************************************************************************)
(* The frame driver of a library user: begin, declarations in the          *)
(* program's declaration order (widgets may be hidden from frame to        *)
(* frame), end, then feed_key.  Widget id is a button, an edit field or a  *)
(* checkbox according to Kind.                                             *)
(***************************************************************************)
Ids == 0..(NumIds - 1)
Keys == {-1, KEY_ENTER, KEY_ESCAPE, CHAR_S, CHAR_W, 371}
Origin == Point(0, 0)

Kind(id) == IF id % 3 = 0 THEN "button" ELSE IF id % 3 = 1 THEN "edit_field" ELSE "checkbox"

NoRet == [op |-> "none", id |-> 0, clicked |-> FALSE, pair |-> 0]
Ret(op, id, r) == [op |-> op, id |-> id, clicked |-> r.clicked, pair |-> r.pair]

\* a call that changes active to Some(id) from anything else
Acquires(im, im2) == IF im2.active # None /\ im2.active # im.active THEN 1 ELSE 0

InIds(id, ids) == \E j \in 1..Len(ids) : ids[j] = id

\* declarations follow the program's declaration order, each id at most once
CanDeclare(id) ==
    /\ pc = "frame"
    /\ \A j \in 1..Len(imtui.ids) : imtui.ids[j] < id

ScriptIdle == /\ decl = <<>>
              /\ script = <<>>
              /\ hist = <<>>

ZeroCount == [label |-> 0, begin_layout |-> 0, end_layout |-> 0]

LayoutIdle == /\ count = ZeroCount
              /\ feeds = <<>>
              /\ balanced = TRUE
              /\ kids = <<>>

MainIdle == /\ quit = FALSE
            /\ hide_buttons = FALSE
            /\ hide_db_state = FALSE
            /\ first_name = <<>>
            /\ last_name = <<>>
            /\ database = <<>>

Init ==
    /\ imtui = ImTui_default
    /\ pc = "idle"
    /\ buffer = <<>>
    /\ state = FALSE
    /\ ret = NoRet
    /\ acquired = 0
    /\ session = FALSE
    /\ released = FALSE
    /\ ScriptIdle
    /\ MainIdle
    /\ LayoutIdle

Begin ==
    /\ pc = "idle"
    /\ IF begin_panics(imtui)
       THEN /\ pc' = "panicked"
            /\ UNCHANGED <<imtui, acquired, released>>
       ELSE /\ imtui' = begin(imtui, Origin)
            /\ pc' = "frame"
            /\ acquired' = 0
            /\ released' = FALSE
    /\ ret' = NoRet
    /\ UNCHANGED <<session, buffer, state, scriptVars, mainVars, layoutVars>>

Label ==
    /\ pc = "frame"
    /\ last(imtui.layouts).size[2] - Len(imtui.ids) < MaxLabels
    /\ imtui' = label(imtui, LabelLen)
    /\ ret' = [NoRet EXCEPT !.op = "label"]
    /\ UNCHANGED <<pc, acquired, session, released, buffer, state, scriptVars, mainVars, layoutVars>>

Button(id) ==
    /\ CanDeclare(id)
    /\ Kind(id) = "button"
    /\ LET r == button(imtui, 1, id) IN
         /\ imtui' = r.imtui
         /\ ret' = Ret("button", id, r)
         /\ acquired' = acquired + Acquires(imtui, r.imtui)
    /\ UNCHANGED <<pc, session, released, buffer, state, scriptVars, mainVars, layoutVars>>

Checkbox(id) ==
    /\ CanDeclare(id)
    /\ Kind(id) = "checkbox"
    /\ LET r == checkbox(imtui, 1, state, id) IN
         /\ imtui' = r.imtui
         /\ state' = r.state
         /\ ret' = Ret("checkbox", id, r)
         /\ acquired' = acquired + Acquires(imtui, r.imtui)
    /\ UNCHANGED <<pc, session, released, buffer, scriptVars, mainVars, layoutVars>>

EditField(id) ==
    /\ CanDeclare(id)
    /\ Kind(id) = "edit_field"
    /\ LET r == edit_field(imtui, buffer, id) IN
         /\ Len(r.buffer) <= MaxBuf
         /\ imtui' = r.imtui
         /\ buffer' = r.buffer
         /\ ret' = Ret("edit_field", id, r)
         /\ acquired' = acquired + Acquires(imtui, r.imtui)
         /\ session' = IF imtui.active = None /\ r.imtui.active = Some(id) THEN TRUE
                        ELSE IF imtui.active = Some(id) /\ r.imtui.active = None THEN FALSE
                        ELSE session
         /\ released' = (released \/ (session /\ imtui.active = Some(id) /\ r.imtui.active = None))
    /\ UNCHANGED <<pc, state, scriptVars, mainVars, layoutVars>>

End ==
    /\ pc = "frame"
    /\ imtui' = end(imtui)
    /\ pc' = "idle"
    /\ ret' = NoRet
    /\ session' = (session /\ imtui.active # None /\ InIds(imtui.active[1], imtui.ids))
    /\ UNCHANGED <<acquired, released, buffer, state, scriptVars, mainVars, layoutVars>>

FeedKey(key) ==
    /\ pc = "idle"
    /\ imtui' = feed_key(imtui, key)
    /\ UNCHANGED <<pc, ghostVars, buffer, state, scriptVars, mainVars, layoutVars>>

Next ==
    \/ Begin
    \/ Label
    \/ \E id \in Ids : Button(id)
    \/ \E id \in Ids : Checkbox(id)
    \/ \E id \in Ids : EditField(id)
    \/ End
    \/ \E key \in Keys : FeedKey(key)

Spec == Init /\ [][Next]_vars

(***************************************************************************)
(* The scripted driver: the frame loop of main (begin, the declarations,   *)
(* end, feed_key) run as one step per frame over a fixed list decl of      *)
(* widgets, recording the key fed before each frame and what the frame     *)
(* showed.  It starts from any state the free driver above can leave       *)
(* between two frames with decl as the ids of the last frame: any stored   *)
(* focus below NumIds (a larger set was shown before), and either nothing  *)
(* active or a widget of decl both hot and active.                         *)
(***************************************************************************)
RECURSIVE SortedSeq(_)
SortedSeq(S) ==
    IF S = {} THEN <<>>
    ELSE LET m == CHOOSE x \in S : \A y \in S : x <= y
         IN <<m>> \o SortedSeq(S \ {m})

DeclLists == {SortedSeq(S) : S \in SUBSET Ids}

ScriptKeys == {None, Some(KEY_ENTER), Some(KEY_ESCAPE), Some(CHAR_S), Some(CHAR_W)}

\* one frame without a key, then 'next' k times, then 'previous' k times
NavScript(k) ==
    [i \in 1..(2 * k + 1) |->
        IF i = 1 THEN None ELSE IF i <= k + 1 THEN Some(CHAR_S) ELSE Some(CHAR_W)]

IsNavPrefix(s) ==
    \E k \in 0..MaxNav :
        /\ Len(s) <= 2 * k + 1
        /\ s = SubSeq(NavScript(k), 1, Len(s))

\* one declaration of the frame: the widget function of id
declare_one(acc, id) ==
    IF Kind(id) = "button"
    THEN LET r == button(acc.imtui, 1, id) IN
         [acc EXCEPT !.imtui = r.imtui,
                     !.clicked = IF r.clicked THEN acc.clicked \cup {id} ELSE acc.clicked]
    ELSE IF Kind(id) = "checkbox"
    THEN LET r == checkbox(acc.imtui, 1, acc.state, id) IN
         [acc EXCEPT !.imtui = r.imtui,
                     !.state = r.state,
                     !.clicked = IF r.clicked THEN acc.clicked \cup {id} ELSE acc.clicked]
    ELSE LET r == edit_field(acc.imtui, acc.buffer, id) IN
         [acc EXCEPT !.imtui = r.imtui, !.buffer = r.buffer]

RECURSIVE declare(_, _)
declare(acc, ids) ==
    IF ids = <<>> THEN acc ELSE declare(declare_one(acc, Head(ids)), Tail(ids))

Snapshot(focus, hot, active, clicked) ==
    [focus |-> focus, hot |-> hot, active |-> active, clicked |-> clicked]

InitScript ==
    /\ decl \in DeclLists
    /\ \E f \in 0..(NumIds - 1), a \in {None} \cup {Some(decl[j]) : j \in 1..Len(decl)} :
         /\ imtui = [ImTui_default EXCEPT !.ids = decl, !.focus = f, !.active = a, !.hot = a]
         /\ hist = <<Snapshot(f, a, a, {})>>
    /\ pc = "idle"
    /\ buffer = <<>>
    /\ state = FALSE
    /\ script = <<>>
    /\ ret = NoRet
    /\ acquired = 0
    /\ session = FALSE
    /\ released = FALSE
    /\ MainIdle
    /\ LayoutIdle

ScriptFrame(key) ==
    /\ pc = "idle"
    /\ Len(script) < MaxScript \/ IsNavPrefix(Append(script, key))
    /\ script' = Append(script, key)
    /\ LET fed == IF key = None THEN imtui ELSE feed_key(imtui, key[1]) IN
         IF begin_panics(fed)
         THEN /\ pc' = "panicked"
              /\ imtui' = fed
              /\ UNCHANGED <<buffer, state, hist>>
         ELSE LET begun == begin(fed, Origin)
                  acc == declare([imtui |-> begun, buffer |-> buffer, state |-> state,
                                  clicked |-> {}], decl)
              IN /\ imtui' = end(acc.imtui)
                 /\ buffer' = acc.buffer
                 /\ state' = acc.state
                 /\ hist' = Append(hist, Snapshot(begun.focus, begun.hot,
                                                  acc.imtui.active, acc.clicked))
                 /\ pc' = "idle"
    /\ UNCHANGED <<decl, ghostVars, mainVars, layoutVars>>

NextScript == \E key \in ScriptKeys : ScriptFrame(key)

SpecScript == InitScript /\ [][NextScript]_vars

(***************************************************************************)
(* main: the demo's frame loop.  One step is one iteration of the while    *)
(* loop: begin, the 'q' check, the declarations, end, feed_key(getch()).   *)
(* getch() without keypad mode yields -1 (no key within the timeout) or a  *)
(* byte.                                                                   *)
(***************************************************************************)
hide_buttons_id == 0
first_name_id == 1
last_name_id == 2
submit_id == 3
clear_id == 4
quit_id == 5
hide_db_id == 6

MainKeys == {-1, KEY_ENTER, KEY_ESCAPE, CHAR_Q, CHAR_S, CHAR_W}

\* mutant: 'q' quits even while a widget is active
main_quit_always(im, q) ==
    IF im.key # None /\ as_u8(im.key[1]) = CHAR_Q THEN TRUE ELSE q

\* lines 300-307: 'q' quits unless a widget is active
main_quit(im, q) ==
    IF im.active = None /\ im.key # None /\ as_u8(im.key[1]) = CHAR_Q THEN TRUE ELSE q

\* the length of format!("{:?}", ids) for one-digit ids: "[Id(6), Id(1)]"
DebugLenIds(ids) == 2 + 5 * Len(ids) + (IF Len(ids) > 0 THEN 2 * (Len(ids) - 1) ELSE 0)

\* the length of format!("{:?}", hot): "Some(Id(3))" or "None"
DebugLenHot(hot) == IF hot = None THEN 4 ELSE 11

\* lines 321-323: one label "{first} | {last}" per record
RECURSIVE database_labels(_, _)
database_labels(im, db) ==
    IF db = <<>> THEN im
    ELSE database_labels(label(im, Len(Head(db)[1]) + 3 + Len(Head(db)[2])), Tail(db))

\* lines 328-333 and 335-340: a horizontal row of a label and an edit field
name_row(im, buf, id) ==
    LET r == edit_field(label(begin_layout(im, "Horz", 1), 11), buf, id)
    IN [r EXCEPT !.imtui = end_layout(r.imtui)]

\* v handed to F as a value: the steps of a frame run one after the other
Then(v, F(_)) == CHOOSE r \in {F(x) : x \in {v}} : TRUE

\* lines 309-317: the button that hides the database
main_hide_db(m) ==
    LET r == button(m.imtui, 1, hide_db_id)
    IN [m EXCEPT !.imtui = r.imtui,
                 !.hide_db_state = IF r.clicked THEN ~m.hide_db_state ELSE m.hide_db_state]

\* lines 319-326: the records, between two rules
main_database(m) ==
    [m EXCEPT !.imtui =
        label(IF ~m.hide_db_state THEN database_labels(label(m.imtui, 30), m.database)
              ELSE m.imtui, 30)]

\* lines 328-333: the first-name row
main_first_name(m) ==
    LET r == name_row(m.imtui, m.first_name, first_name_id)
    IN [m EXCEPT !.imtui = r.imtui, !.first_name = r.buffer]

\* lines 335-342: the last-name row and the rule below it
main_last_name(m) ==
    LET r == name_row(m.imtui, m.last_name, last_name_id)
    IN [m EXCEPT !.imtui = label(r.imtui, 30), !.last_name = r.buffer]

\* lines 344-352: the button that hides the buttons
main_hide_buttons(m) ==
    LET r == button(m.imtui, 1, hide_buttons_id)
    IN [m EXCEPT !.imtui = r.imtui,
                 !.hide_buttons = IF r.clicked THEN ~m.hide_buttons ELSE m.hide_buttons]

\* lines 357-361: Submit
main_submit(m) ==
    LET r == button(m.imtui, 6, submit_id)
    IN IF r.clicked
       THEN [m EXCEPT !.imtui = r.imtui,
                      !.database = Append(m.database, <<m.first_name, m.last_name>>),
                      !.first_name = <<>>,
                      !.last_name = <<>>]
       ELSE [m EXCEPT !.imtui = r.imtui]

\* lines 363-365: Clear
main_clear(m) ==
    LET r == button(m.imtui, 5, clear_id)
    IN [m EXCEPT !.imtui = r.imtui,
                 !.database = IF r.clicked THEN <<>> ELSE m.database]

\* lines 367-369: Quit
main_quit_button(m) ==
    LET r == button(m.imtui, 4, quit_id)
    IN [m EXCEPT !.imtui = r.imtui,
                 !.quit = IF r.clicked THEN TRUE ELSE m.quit]

main_begin_row(m) == [m EXCEPT !.imtui = begin_layout(m.imtui, "Horz", 1)]

main_end_row(m) == [m EXCEPT !.imtui = end_layout(m.imtui)]

\* lines 354-372: the row of the Submit, Clear and Quit buttons, unless hidden
buttons_row(m) ==
    IF ~m.hide_buttons
    THEN Then(Then(Then(Then(main_begin_row(m), main_submit), main_clear),
                   main_quit_button), main_end_row)
    ELSE m

\* lines 374-384: the debug labels
debug_labels(m) ==
    LET im == label(label(label(label(label(m.imtui, 0), 0), 0), 0), 7)
    IN [m EXCEPT !.imtui =
            label(label(label(im, 16 + DebugLenIds(im.ids)), 16 + 1),
                  16 + DebugLenHot(im.hot))]

main_quit_key(m) == [m EXCEPT !.quit = main_quit(m.imtui, m.quit)]

\* lines 299-385: the body of the frame, between begin() and end()
main_body(m) ==
    Then(Then(Then(Then(Then(Then(Then(main_quit_key(m),
        main_hide_db), main_database), main_first_name), main_last_name),
        main_hide_buttons), buttons_row), debug_labels)

\* the characters held in the two fields and in the database
RECURSIVE Typed(_)
Typed(db) ==
    IF db = <<>> THEN 0 ELSE Len(Head(db)[1]) + Len(Head(db)[2]) + Typed(Tail(db))

InitMain ==
    /\ imtui = ImTui_default
    /\ pc = "idle"
    /\ buffer = <<>>
    /\ state = FALSE
    /\ ret = NoRet
    /\ acquired = 0
    /\ session = FALSE
    /\ released = FALSE
    /\ ScriptIdle
    /\ MainIdle
    /\ LayoutIdle

MainLoop(key) ==
    /\ pc = "idle"
    /\ IF begin_panics(imtui)
       THEN /\ pc' = "panicked"
            /\ UNCHANGED <<imtui, mainVars>>
       ELSE \E m \in {main_body([imtui |-> begin(imtui, Point(0, 0)),
                                  quit |-> quit,
                                  hide_buttons |-> hide_buttons,
                                  hide_db_state |-> hide_db_state,
                                  first_name |-> first_name,
                                  last_name |-> last_name,
                                  database |-> database])} :
               /\ Len(m.database) <= MaxDb
               /\ Typed(<<<<m.first_name, m.last_name>>>> \o m.database) <= MaxTyped
               /\ imtui' = feed_key(end(m.imtui), key)
               /\ quit' = m.quit
               /\ hide_buttons' = m.hide_buttons
               /\ hide_db_state' = m.hide_db_state
               /\ first_name' = m.first_name
               /\ last_name' = m.last_name
               /\ database' = m.database
               /\ pc' = IF m.quit THEN "done" ELSE "idle"
    /\ UNCHANGED <<buffer, state, ghostVars, scriptVars, layoutVars>>

NextMain == \E key \in MainKeys : MainLoop(key)

SpecMain == InitMain /\ [][NextMain]_vars

(***************************************************************************)
(* The layout driver: frames whose declarations are mixed with             *)
(* begin_layout / end_layout calls, balanced or not, and whose feed_key    *)
(* call comes before or after end().  count holds the label, begin_layout  *)
(* and end_layout calls of the current frame, feeds the feed_key calls     *)
(* since the last begin() with the place of each, and balanced tells       *)
(* whether every end_layout so far closed a begin_layout of its frame and  *)
(* every end() found them all closed.                                      *)
(***************************************************************************)
LayoutKeys == {KEY_ENTER}
LayoutIds == {0, 1, 2}
Pads == {1}

\* rows are opened in columns and columns in rows, as in main
Across(typ) == IF typ = "Vert" THEN "Horz" ELSE "Vert"

\* begin_layout calls of the current frame not yet closed
Open == count.begin_layout - count.end_layout

InitLayout ==
    /\ imtui = ImTui_default
    /\ pc = "idle"
    /\ buffer = <<>>
    /\ state = FALSE
    /\ ret = NoRet
    /\ acquired = 0
    /\ session = FALSE
    /\ released = FALSE
    /\ ScriptIdle
    /\ MainIdle
    /\ LayoutIdle

\* the driver is followed up to the begin() that follows its first
\* unbalanced frame
LayoutBegin ==
    /\ pc = "idle"
    /\ ~begin_panics(imtui)
    /\ imtui' = begin(imtui, Origin)
    /\ pc' = "frame"
    /\ count' = ZeroCount
    /\ feeds' = <<>>
    /\ UNCHANGED <<buffer, state, balanced, kids, ghostVars, scriptVars, mainVars>>

LayoutLabel ==
    /\ pc = "frame"
    /\ balanced
    /\ count.label < MaxLabels
    /\ ~widget_panics(imtui)
    /\ imtui' = label(imtui, LabelLen)
    /\ count' = [count EXCEPT !.label = @ + 1]
    /\ UNCHANGED <<pc, buffer, state, feeds, balanced, kids, ghostVars, scriptVars, mainVars>>

LayoutDeclare(id) ==
    /\ CanDeclare(id)
    /\ balanced
    /\ ~widget_panics(imtui)
    /\ LET acc == declare_one([imtui |-> imtui, buffer |-> buffer, state |-> state,
                               clicked |-> {}], id)
       IN /\ Len(acc.buffer) <= MaxBuf
          /\ imtui' = acc.imtui
          /\ buffer' = acc.buffer
          /\ state' = acc.state
    /\ UNCHANGED <<pc, layoutVars, ghostVars, scriptVars, mainVars>>

BeginLayout(typ, pad) ==
    /\ pc = "frame"
    /\ balanced
    /\ count.begin_layout < MaxOpen
    /\ ~begin_layout_panics(imtui)
    /\ typ = Across(last(imtui.layouts).typ)
    /\ imtui' = begin_layout(imtui, typ, pad)
    /\ count' = [count EXCEPT !.begin_layout = @ + 1]
    /\ UNCHANGED <<pc, buffer, state, feeds, balanced, kids, ghostVars, scriptVars, mainVars>>

EndLayout ==
    /\ pc = "frame"
    /\ balanced
    /\ IF end_layout_panics(imtui)
       THEN /\ pc' = "panicked"
            /\ UNCHANGED <<imtui, count>>
       ELSE /\ imtui' = end_layout(imtui)
            /\ count' = [count EXCEPT !.end_layout = @ + 1]
            /\ pc' = pc
    /\ balanced' = (Open > 0)
    /\ UNCHANGED <<buffer, state, feeds, kids, ghostVars, scriptVars, mainVars>>

LayoutEnd ==
    /\ pc = "frame"
    /\ balanced
    /\ ~end_panics(imtui)
    /\ imtui' = end(imtui)
    /\ pc' = "idle"
    /\ balanced' = (Open = 0)
    /\ UNCHANGED <<buffer, state, count, feeds, kids, ghostVars, scriptVars, mainVars>>

\* main's place for feed_key: once, after end()
LayoutFeedKey(key) ==
    /\ pc = "idle"
    /\ imtui.key = None
    /\ imtui' = feed_key(imtui, key)
    /\ UNCHANGED <<pc, buffer, state, layoutVars, ghostVars, scriptVars, mainVars>>

NextLayout ==
    \/ LayoutBegin
    \/ LayoutLabel
    \/ \E id \in LayoutIds : LayoutDeclare(id)
    \/ \E typ \in {"Horz", "Vert"}, pad \in Pads : BeginLayout(typ, pad)
    \/ EndLayout
    \/ LayoutEnd
    \/ \E key \in LayoutKeys : LayoutFeedKey(key)

SpecLayout == InitLayout /\ [][NextLayout]_vars

(***************************************************************************)
(* The feed driver: frames of widget declarations in which feed_key is     *)
(* called before end() as well as after it.  feeds records each call since *)
(* the last begin() with the place it was made from.  getch() hands over   *)
(* -1 when no key was pressed.                                             *)
(***************************************************************************)
FeedKeys == {-1, KEY_ENTER}

FeedKeyAt(key) ==
    /\ pc \in {"idle", "frame"}
    /\ Len(feeds) < MaxFeeds
    /\ imtui' = feed_key(imtui, key)
    /\ feeds' = Append(feeds, [key |-> key, at |-> pc])
    /\ UNCHANGED <<pc, buffer, state, count, balanced, kids, ghostVars, scriptVars, mainVars>>

NextFeed ==
    \/ LayoutBegin
    \/ \E id \in LayoutIds : LayoutDeclare(id)
    \/ LayoutEnd
    \/ \E key \in FeedKeys : FeedKeyAt(key)

SpecFeed == InitLayout /\ [][NextFeed]_vars

(***************************************************************************)
(* Layout::add_size and Layout::free_pos on their own: a layout of either  *)
(* orientation, at any origin and with any padding, receives the sizes of  *)
(* its children one by one; kids records them.                             *)
(***************************************************************************)
Origins == {Point(x, y) : x \in 0..1, y \in 0..1}
Paddings == 0..2
Sizes == {Point(w, h) : w \in {0, LabelLen, EDIT_FIELD_WIDTH}, h \in {1, 2}}

InitAddSize ==
    /\ \E typ \in {"Horz", "Vert"}, pos \in Origins, pad \in Paddings :
          imtui = [ImTui_default EXCEPT !.layouts = <<Layout_new(typ, pos, pad)>>]
    /\ pc = "layout"
    /\ buffer = <<>>
    /\ state = FALSE
    /\ ret = NoRet
    /\ acquired = 0
    /\ session = FALSE
    /\ released = FALSE
    /\ ScriptIdle
    /\ MainIdle
    /\ LayoutIdle

AddSize(size) ==
    /\ pc = "layout"
    /\ Len(kids) < MaxKids
    /\ imtui' = [imtui EXCEPT !.layouts = set_last(imtui.layouts,
                                                 add_size(last(imtui.layouts), size))]
    /\ kids' = Append(kids, size)
    /\ UNCHANGED <<pc, buffer, state, count, feeds, balanced, ghostVars, scriptVars, mainVars>>

NextAddSize == \E size \in Sizes : AddSize(size)

SpecAddSize == InitAddSize /\ [][NextAddSize]_vars

(***************************************************************************)
(* Properties of the interaction engine under Spec.                        *)
(***************************************************************************)
Momentary(id) == Kind(id) \in {"button", "checkbox"}

\* the step is a call of the widget function of id W
WidgetCall(W) == pc = "frame" /\ imtui'.ids = Append(imtui.ids, W)

\* the step is begin() returning normally
BeginStep == pc = "idle" /\ pc' = "frame"

\* C1: a widget call for W sets active to Some(W) only when active is None,
\* hot is Some(W) and the pending key is Enter; active never goes from
\* Some(V) to Some(W) with V # W in one call; at most one widget acquires
\* active in a frame.
C1_MutualExclusion ==
    /\ [](acquired <= 1)
    /\ [][\A W \in Ids :
            (imtui'.active = Some(W) /\ imtui.active # Some(W)) =>
                /\ WidgetCall(W)
                /\ imtui.active = None
                /\ imtui.hot = Some(W)
                /\ imtui.key = Some(KEY_ENTER)]_vars

\* a widget has acquired active in the current frame, after another widget
\* was declared
C1_Witness ==
    /\ pc = "frame"
    /\ acquired = 1
    /\ imtui.active = imtui.hot
    /\ imtui.active # None
    /\ Len(imtui.ids) >= 2

\* C3: a button or checkbox W that is hot, with nothing active and Enter
\* pending, becomes active and returns false in that call; a call returns
\* true only when it finds active = Some(W), acquired in an earlier frame.
C3_ClickReportedInLaterFrame ==
    [][\A W \in Ids :
         (WidgetCall(W) /\ Momentary(W)) =>
            /\ (imtui.hot = Some(W) /\ imtui.active = None /\ imtui.key = Some(KEY_ENTER))
                  => (imtui'.active = Some(W) /\ ~ret'.clicked)
            /\ ret'.clicked => (imtui.active = Some(W) /\ acquired = 0)]_vars

\* a checkbox has just become active on Enter and returned false
C3_Witness ==
    /\ ret.op = "checkbox"
    /\ ~ret.clicked
    /\ imtui.active = Some(ret.id)
    /\ imtui.key = Some(KEY_ENTER)
    /\ acquired = 1

\* C4 as claimed: active = Some(W) for a button or checkbox W never survives
\* from one frame into the next: active is None (or an edit field) at end().
C4_PulseWithinFrame ==
    pc = "idle" => (imtui.active = None \/ ~Momentary(imtui.active[1]))

\* C4 amended: active = Some(W) of a button or checkbox W set in one frame
\* is still set at that frame's end() and is cleared by W's call in the next
\* frame that declares W: whenever W is active after its own call in a
\* frame, it acquired active in that same frame, on Enter while hot.
C4_PulseClearedByNextCall ==
    \A W \in Ids :
        (pc = "frame" /\ Momentary(W) /\ imtui.active = Some(W) /\ InIds(W, imtui.ids)) =>
            /\ acquired = 1
            /\ imtui.hot = Some(W)
            /\ imtui.key = Some(KEY_ENTER)

\* a button that entered the frame active has been cleared by its call
C4_Witness ==
    /\ pc = "frame"
    /\ ret.op = "button"
    /\ ret.clicked
    /\ imtui.active = None
    /\ InIds(ret.id, imtui.ids)

\* the key is one edit_field appends: 32..=127
Printable(key) == key # None /\ key[1] >= PRINTABLE_LO /\ key[1] <= PRINTABLE_HI

Terminator(key) == key = Some(KEY_ENTER) \/ key = Some(KEY_ESCAPE)

\* C5: every call of an active edit field appends the pending key when it
\* is in 32..=127 and nothing otherwise, so a session of keys k1..kn leaves
\* the initial content followed by k1..kn; Enter and Escape append nothing
\* and end the session alike, and active is None after the terminating
\* frame.
C5_EditSession ==
    /\ []((pc = "idle" /\ released) => imtui.active = None)
    /\ [][\A E \in Ids :
            (WidgetCall(E) /\ Kind(E) = "edit_field" /\ imtui.active = Some(E)) =>
                /\ buffer' = IF Printable(imtui.key) THEN Append(buffer, imtui.key[1]) ELSE buffer
                /\ imtui'.active = IF Terminator(imtui.key) THEN None ELSE Some(E)]_vars

C9_BeginOnEmptyIds ==
    [][(pc = "idle" /\ pc' # "idle" /\ imtui.ids = <<>>) =>
         (pc' = "frame" /\ imtui'.hot = None)]_vars

\* C10: after begin() with n >= 1 ids of the previous frame the stored
\* focus is within 0..n-1.
C10_FocusInRange ==
    [][(BeginStep /\ Len(imtui.ids) >= 1) =>
         imtui'.focus \in 0..(Len(imtui.ids) - 1)]_vars

(***************************************************************************)
(* Properties of whole runs, under SpecScript.  hist[1] is the state the   *)
(* run starts in and hist[i + 1] what frame i showed: the focus and hot    *)
(* that begin() computed, active at end(), and the widgets that returned   *)
(* true.                                                                   *)
(***************************************************************************)
\* a single momentary widget W, hot, nothing active, driven by
\* [no key, Enter, no key]
C2_Scenario(W) ==
    /\ Momentary(W)
    /\ decl = <<W>>
    /\ hist[1].active = None
    /\ script = <<None, Some(KEY_ENTER), None>>
    /\ pc = "idle"

\* C2 as claimed: the widget returns true in exactly the frame whose key is
\* Enter: false, true, false.
C2_ClickInEnterFrame ==
    \A W \in Ids :
        C2_Scenario(W) =>
            /\ hist[2].clicked = {}
            /\ hist[3].clicked = {W}
            /\ hist[4].clicked = {}

\* C2 amended: the widget returns false in the frame whose key is Enter,
\* where it becomes active, and true in the next frame, whatever that
\* frame's key: false, false, true for [no key, Enter, no key]; in general
\* it returns true exactly in a frame entered with it active, and ends a
\* frame active exactly when that frame's key is Enter and it entered the
\* frame with nothing active.
C2_ClickInFrameAfterEnter ==
    \A W \in Ids :
        /\ C2_Scenario(W) =>
             /\ hist[2].clicked = {}
             /\ hist[3].clicked = {}
             /\ hist[4].clicked = {W}
        /\ (Momentary(W) /\ decl = <<W>> /\ pc = "idle") =>
             \A i \in 1..Len(script) :
                /\ hist[i + 1].clicked = IF hist[i].active = Some(W) THEN {W} ELSE {}
                /\ hist[i + 1].active =
                      IF script[i] = Some(KEY_ENTER) /\ hist[i].active = None
                      THEN Some(W) ELSE None

\* the scenario has run to its third frame, which reported the click
C2_Witness == C2_Scenario(0) /\ hist[4].clicked = {0} /\ hist[3].active = Some(0)

\* a run of frame 0 without a key, then k 'next', then k 'previous', over a
\* constant widget list with nothing active
C8_Scenario ==
    /\ \E k \in 0..MaxNav : script = NavScript(k)
    /\ decl # <<>>
    /\ hist[1].active = None
    /\ pc = "idle"

\* C8: k frames of 'next' followed by k frames of 'previous' return focus
\* to a value congruent to the original one modulo n, and hot to the
\* original hot, for every k and every starting focus.
C8_NavigationRoundTrip ==
    C8_Scenario =>
        /\ imtui.focus % Len(decl) = hist[1].focus % Len(decl)
        /\ hist[Len(hist)].hot = hist[2].hot

(***************************************************************************)
(* Properties of the demo, under SpecMain.                                 *)
(***************************************************************************)
\* the buffer main hands to the edit field of id E
NameOf(E, first, lastn) == IF E = first_name_id THEN first ELSE lastn

\* C6: while an edit field of main is active, a frame whose key is neither
\* Enter nor Escape appends the key to that field's buffer when it is in
\* 32..=127 ('s', 'w' and 'q' included) and changes neither focus, hot,
\* active, the quit flag nor the other field: the field stays active.
C6_KeysConsumedByActiveEdit ==
    [][\A E \in {first_name_id, last_name_id} :
         (imtui.active = Some(E) /\ ~Terminator(imtui.key) /\ pc' # "panicked") =>
            /\ NameOf(E, first_name', last_name') =
                  IF Printable(imtui.key)
                  THEN Append(NameOf(E, first_name, last_name), imtui.key[1])
                  ELSE NameOf(E, first_name, last_name)
            /\ NameOf(3 - E, first_name', last_name') = NameOf(3 - E, first_name, last_name)
            /\ imtui'.focus = imtui.focus
            /\ imtui'.hot = imtui.hot
            /\ imtui'.active = imtui.active
            /\ quit' = quit
            /\ pc' = "idle"]_vars

\* the first-name field is still active after 'q' was typed into it, with
\* a navigation key pending
C6_Witness ==
    /\ imtui.active = Some(first_name_id)
    /\ first_name = <<CHAR_Q>>
    /\ imtui.key = Some(CHAR_S)
    /\ ~quit

(***************************************************************************)
(* Further properties of begin() under Spec.  In a step of begin(),        *)
(* imtui.ids is the previous frame's list of ids and imtui.hot the hot of  *)
(* the previous frame.                                                     *)
(***************************************************************************)
\* C11: after begin(), hot is None iff the previous frame declared no id,
\* and otherwise the id at position min(max(focus, 0), n - 1) of the
\* previous frame's ids, focus being the value begin() stored: the last id
\* when focus >= n.
C11_HotIsClampedLookup ==
    [][BeginStep =>
         LET n == Len(imtui.ids)
             f == imtui'.focus
             i == IF f < 0 THEN 0 ELSE IF f > n - 1 THEN n - 1 ELSE f
         IN /\ (imtui'.hot = None) <=> (n = 0)
            /\ n > 0 => imtui'.hot = Some(imtui.ids[i + 1])]_vars

\* the previous frame declared only ids 0 and 1 while focus is 2: hot is
\* the last id, 1
C11_Witness ==
    /\ pc = "frame"
    /\ imtui.ids = <<>>
    /\ imtui.focus = 2
    /\ imtui.hot = Some(1)

\* C16: ids is the record of the frame's declarations: begin() empties it,
\* every button, checkbox and edit_field call appends its id, a label call
\* and end() leave it as it is.
C16_IdsRecordDeclarations ==
    [][/\ BeginStep => imtui'.ids = <<>>
       /\ (pc = "frame" /\ pc' = "frame") =>
             imtui'.ids = IF ret'.op = "label" THEN imtui.ids
                          ELSE Append(imtui.ids, ret'.id)
       /\ (pc = "frame" /\ pc' = "idle") => imtui'.ids = imtui.ids]_vars

\* a label was declared after two widgets of a frame that follows a frame
\* of one widget: ids holds the two ids
C16_Witness ==
    /\ pc = "frame"
    /\ ret.op = "label"
    /\ imtui.ids = <<1, 2>>
    /\ imtui.hot = Some(0)
    /\ last(imtui.layouts).size[2] = 3

\* C17: when nothing is active at begin(), the key is 's' (resp. 'w') and
\* the id that was hot in the preceding frame stands at position i of the n
\* ids that frame declared, the new hot is the id at position (i + 1) mod n
\* (resp. (i - 1) mod n) of those ids.
C17_HotMovesToNeighbour ==
    [][(BeginStep /\ imtui.active = None /\ imtui.hot # None
            /\ imtui.key \in {Some(CHAR_S), Some(CHAR_W)}) =>
         \A i \in 1..Len(imtui.ids) :
            imtui.ids[i] = imtui.hot[1] =>
               imtui'.hot =
                  Some(imtui.ids[((i - 1 + (IF imtui.key = Some(CHAR_S) THEN 1 ELSE -1))
                                     % Len(imtui.ids)) + 1])]_vars

\* C19: begin() changes focus only when the pending key code is exactly
\* 115 or 119; every other code, -1 and codes above 255 included, leaves
\* focus unchanged.
C19_OnlyExactKeysNavigate ==
    [][(BeginStep /\ imtui'.focus # imtui.focus) =>
          imtui.key \in {Some(CHAR_S), Some(CHAR_W)}]_vars

(***************************************************************************)
(* Properties of the layout stack under SpecLayout.                        *)
(***************************************************************************)
\* C12: while every frame so far closed exactly the layouts it opened, the
\* layout stack is empty after end(), so between any two such frames, and
\* inside a frame its depth is 1 + the number of open begin_layout calls.
C12_LayoutStackBalance ==
    balanced =>
        /\ pc = "idle" => imtui.layouts = <<>>
        /\ pc = "frame" => Len(imtui.layouts) = 1 + Open

\* a frame that opened two layouts and closed both has ended
C12_Witness ==
    /\ pc = "idle"
    /\ balanced
    /\ count.begin_layout = 2
    /\ count.end_layout = 2
    /\ Len(imtui.ids) = 2
    /\ imtui.layouts = <<>>

\* C14: a frame with an unmatched begin_layout, or with an end_layout that
\* has no open begin_layout, never completes: end() returns only with all
\* layouts closed, an end_layout with nothing open does not return, and
\* begin() always finds the layout stack empty.
C14_UnbalancedIsFatal ==
    [][/\ (pc = "frame" /\ pc' = "idle") => Open = 0
       /\ (pc = "frame" /\ Open = 0) => count'.end_layout = count.end_layout
       /\ (pc = "idle" /\ pc' = "frame") => imtui.layouts = <<>>]_vars

\* C20: between begin() and end() no label, checkbox, button, edit_field,
\* begin_layout or end_layout call changes hot, focus or the pending key;
\* a label call leaves active and ids unchanged as well.
C20_FrameFixesHotFocusKey ==
    [][(pc = "frame" /\ pc' = "frame") =>
          /\ imtui'.hot = imtui.hot
          /\ imtui'.focus = imtui.focus
          /\ imtui'.key = imtui.key
          /\ count'.label # count.label =>
                (imtui'.active = imtui.active /\ imtui'.ids = imtui.ids)]_vars

\* a frame with Enter pending and a widget hot and active has declared
\* three widgets and a label and has opened and closed a layout
C20_Witness ==
    /\ pc = "frame"
    /\ count.label = 1
    /\ count.begin_layout >= 1
    /\ count.end_layout >= 1
    /\ Len(imtui.ids) = 3
    /\ imtui.key = Some(KEY_ENTER)
    /\ imtui.hot # None
    /\ imtui.active = imtui.hot

(***************************************************************************)
(* feed_key and end() under SpecFeed.                                      *)
(***************************************************************************)
\* C15 as claimed: one feed_key(k) since the last begin(), before or after
\* end(), makes k the pending key of the next frame; none leaves it None.
C15_FeedBeforeOrAfterEnd ==
    [][BeginStep =>
          /\ Len(feeds) = 1 => imtui'.key = Some(feeds[1].key)
          /\ feeds = <<>> => imtui'.key = None]_vars

\* C15 amended: feed_key(k) called after end() makes k the pending key of
\* the next frame; a call before end() is cleared by end(), so the next
\* frame has no pending key; with no call it has none either.
C15_FeedAfterEnd ==
    [][BeginStep =>
          /\ Len(feeds) = 1 =>
                imtui'.key = IF feeds[1].at = "idle" THEN Some(feeds[1].key) ELSE None
          /\ feeds = <<>> => imtui'.key = None]_vars

\* a frame has ended after a feed_key of Enter made before its end(): no
\* key is pending
C15_Witness ==
    /\ pc = "idle"
    /\ Len(feeds) = 1
    /\ feeds[1] = [key |-> KEY_ENTER, at |-> "frame"]
    /\ Len(imtui.ids) >= 1
    /\ imtui.key = None

(***************************************************************************)
(* free_pos after add_size, under SpecAddSize.                             *)
(***************************************************************************)
RECURSIVE SumOf(_, _)
SumOf(sizes, c) == IF sizes = <<>> THEN 0 ELSE Head(sizes)[c] + SumOf(Tail(sizes), c)

RECURSIVE MaxOf(_, _)
MaxOf(sizes, c) ==
    IF sizes = <<>> THEN 0
    ELSE LET m == MaxOf(Tail(sizes), c) IN IF Head(sizes)[c] >= m THEN Head(sizes)[c] ELSE m

\* free_pos and the accumulated cross size after the children kids
FreePosFormula ==
    LET l == imtui.layouts[1]
        n == Len(kids)
    IN IF l.typ = "Vert"
       THEN /\ free_pos(l) = <<l.pos[1], l.pos[2] + SumOf(kids, 2) + n * l.pad>>
            /\ l.size[1] = MaxOf(kids, 1)
       ELSE /\ free_pos(l) = <<l.pos[1] + SumOf(kids, 1) + n * l.pad, l.pos[2]>>
            /\ l.size[2] = MaxOf(kids, 2)

\* a vertical layout of padding 1 that received two children of height 1
TwoUnitRows ==
    /\ pc = "layout"
    /\ imtui.layouts[1].typ = "Vert"
    /\ imtui.layouts[1].pad = 1
    /\ Len(kids) = 2
    /\ kids[1][2] = 1
    /\ kids[2][2] = 1

\* C13 as claimed: free_pos = (ox, oy + sum(hi) + n*p) with accumulated
\* width max(wi) in a vertical layout, symmetrically in a horizontal one;
\* two children of height 1 with padding 1 give free_pos.y = oy + 3.
C13_FreePosExampleThree ==
    pc = "layout" =>
        /\ FreePosFormula
        /\ TwoUnitRows => free_pos(imtui.layouts[1])[2] = imtui.layouts[1].pos[2] + 3

\* C13 amended: the same formula; two children of height 1 with padding 1
\* give free_pos.y = oy + 4, the padding being added after every child.
C13_FreePosArithmetic ==
    pc = "layout" =>
        /\ FreePosFormula
        /\ TwoUnitRows => free_pos(imtui.layouts[1])[2] = imtui.layouts[1].pos[2] + 4

\* the example: two children of height 1, padding 1, origin (1, 1)
C13_Witness ==
    /\ TwoUnitRows
    /\ imtui.layouts[1].pos = <<1, 1>>
    /\ free_pos(imtui.layouts[1]) = <<1, 5>>

(***************************************************************************)
(* Active widgets of the demo, under SpecMain.  A step is one iteration of *)
(* main's loop: imtui.active is what begin() finds, imtui'.hot what it     *)
(* computes and imtui'.ids what the frame declares.                        *)
(***************************************************************************)
\* C18: in main, a widget that is active at begin() is the hot one and is
\* declared in that frame; active is never left on an id absent from the
\* ids of the frame just ended.
C18_ActiveIsHotAndDeclared ==
    /\ [](imtui.active # None => InIds(imtui.active[1], imtui.ids))
    /\ [][(imtui.active # None /\ pc' # "panicked") =>
             /\ imtui'.hot = imtui.active
             /\ InIds(imtui.active[1], imtui'.ids)]_vars

\* the buttons are hidden and the hide-buttons button is active again
C18_Witness ==
    /\ pc = "idle"
    /\ hide_buttons
    /\ imtui.active = Some(hide_buttons_id)
    /\ imtui.hot = Some(hide_buttons_id)
    /\ imtui.ids = <<hide_db_id, first_name_id, last_name_id, hide_buttons_id>>

====
